---- MODULE Spec2Model ----
(***************************************************************************)
(* Model of ekranoplan/checks.py: the session/member resolvers, the        *)
(* channel permission check, the bucketed message search and the channel   *)
(* position check.  The store (users, members, guilds, roles, channels,    *)
(* messages) is only read by these functions: it is drawn in the initial   *)
(* state, and every action is one call, recorded with its outcome in ret.  *)
(***************************************************************************)
EXTENDS Integers, Sequences, FiniteSets, TLC

\* ---------------------------------------------------------------- bounds
MaxOverwrites == 2
MaxRoles == 2
MaxBucket == 2
MaxMessages == 3
MaxLimit == 2
MaxChannels == 3
MaxPos == 3

\* user ids: 1 is the user the tokens resolve to, 2 is another user that
\* overwrites may name
Users == {1, 2}
Tokens == {1}
Guilds == {1, 2}
\* the guild whose members and channels vary in the permission checks
HomeGuild == CHOOSE g \in Guilds : \A h \in Guilds : g <= h
\* channel ids asked for: the stored channel and an id that is not stored
ChannelIds == {1, 2}
StoredChannel == CHOOSE c \in ChannelIds : \A d \in ChannelIds : c <= d
RoleIds == {1, 2}

\* ------------------------------------------------------------ permissions
\* GuildPermissions: a bitset with one attribute per flag name
FlagNames == {"administator", "send_messages"}
FlagBit(name) == IF name = "administator" THEN 0 ELSE 1

RECURSIVE Pow2(_)
Pow2(n) == IF n = 0 THEN 1 ELSE 2 * Pow2(n - 1)

PermBits == 0..(Pow2(Cardinality(FlagNames)) - 1)
AllFlags == Pow2(Cardinality(FlagNames)) - 1

\* getattr(GuildPermissions(value), name)
HasFlag(value, name) == (value \div Pow2(FlagBit(name))) % 2 = 1

VARIABLES users, members, guilds, roles, guild_channels, messages,
          current_bucket, ret

store == <<users, members, guilds, roles, guild_channels, messages,
           current_bucket>>
vars == <<store, ret>>

\* ---------------------------------------------------------------- outcomes
\* a call ends with a returned value (err = "none") or a raised exception
Ok(v) == [err |-> "none", value |-> v]
Raise(e) == [err |-> e, value |-> <<>>]
NoCall == [op |-> "none"]
\* the value of a call that returns nothing
None == <<>>

\* ------------------------------------------------------------------ store
\* PermissionOverWrites rows: any allow and deny for the calling user; for
\* the other user one row that allows and one that denies every flag
Overwrites ==
    [id : Tokens, allow : PermBits, deny : PermBits] \cup
    {[id |-> u, allow |-> AllFlags, deny |-> 0] : u \in Users \ Tokens} \cup
    {[id |-> u, allow |-> 0, deny |-> AllFlags] : u \in Users \ Tokens}

OverwriteLists == UNION {[1..n -> Overwrites] : n \in 0..MaxOverwrites}

\* list(member.roles): a set column, so no role id twice
RoleLists ==
    {rs \in UNION {[1..n -> RoleIds] : n \in 0..MaxRoles} :
        \A i, j \in DOMAIN rs : i # j => rs[i] # rs[j]}

\* the Role table: role 1 carries the administator flag only, role 2 the
\* send_messages flag only
RoleTable == [r \in RoleIds |-> [permissions |-> Pow2(r - 1)]]

\* ---------------------------------------------------------------- checks.py
verify_token(token) == [id |-> token, bot |-> users[token].bot]

valid_session(token) == verify_token(token)

validate_user(token, stop_bots) ==
    LET user == valid_session(token)
    IN  IF stop_bots /\ user.bot THEN Raise("Forbidden") ELSE Ok(user)

validate_member_notfound(token, guild_id, stop_bots) ==
    LET u == validate_user(token, FALSE)
    IN  IF u.err # "none" THEN u
        ELSE LET objs == {m \in members :
                             m.id = u.value.id /\ m.guild_id = guild_id}
             IN  IF objs = {} THEN Raise("NotFound")
                 ELSE Ok(<<CHOOSE m \in objs : TRUE, u.value>>)

validate_member(token, guild_id, stop_bots) ==
    \* the call is validate_user(token=token): stop_bots is not handed on
    LET u == validate_user(token, FALSE)
    IN  IF u.err # "none" THEN u
        ELSE LET objs == {m \in members :
                             m.id = u.value.id /\ m.guild_id = guild_id}
             IN  IF objs = {} THEN Raise("Forbidden")
                 ELSE Ok(<<CHOOSE m \in objs : TRUE, u.value>>)

LastOverwrite(overwrites, user_id) ==
    LET hits == {i \in DOMAIN overwrites : overwrites[i].id = user_id}
    IN  IF hits = {} THEN 0
        ELSE CHOOSE i \in hits : \A j \in hits : i >= j

\* the loop over channel.permission_overwrites: the index of the first
\* overwrite whose id is user_id, 0 when user_found stays False
FirstOverwrite(overwrites, user_id) ==
    LET hits == {i \in DOMAIN overwrites : overwrites[i].id = user_id}
    IN  IF hits = {} THEN 0
        ELSE CHOOSE i \in hits : \A j \in hits : i <= j

\* the bitset read when no overwrite names the user
BasePermissions(member, guild_id) ==
    IF member.roles = <<>> THEN guilds[guild_id].permissions
    ELSE roles[member.roles[1]].permissions

BaseDecisionNoBypass(permissions, permission) ==
    HasFlag(permissions, permission)

\* TRUE when the branch "not user_found" returns, FALSE when it raises
BaseDecision(permissions, permission) ==
    IF HasFlag(permissions, "administator") THEN TRUE
    ELSE IF ~HasFlag(permissions, permission) THEN FALSE
    ELSE TRUE

OverwriteDecisionAllowFirst(overwrite, permission) ==
    IF HasFlag(overwrite.allow, permission) THEN TRUE
    ELSE FALSE

\* TRUE when the branch "user_found" returns, FALSE when it raises
OverwriteDecision(overwrite, permission) ==
    IF HasFlag(overwrite.deny, permission) THEN FALSE
    ELSE IF ~HasFlag(overwrite.allow, permission) THEN FALSE
    ELSE TRUE

AuthorizeNoOwner(member, user, channel, guild_id, permission) ==
    LET found == FirstOverwrite(channel.permission_overwrites, user.id)
    IN  IF found = 0
        THEN BaseDecision(BasePermissions(member, guild_id), permission)
        ELSE OverwriteDecision(channel.permission_overwrites[found],
                               permission)

\* validate_channel once member, user and channel are at hand
Authorize(member, user, channel, guild_id, permission) ==
    IF member.owner THEN TRUE
    ELSE LET found == FirstOverwrite(channel.permission_overwrites, user.id)
         IN  IF found = 0
             THEN BaseDecision(BasePermissions(member, guild_id), permission)
             ELSE OverwriteDecision(channel.permission_overwrites[found],
                                    permission)

validate_channel(token, guild_id, channel_id, permission, stop_bots) ==
    LET mu == validate_member(token, guild_id, stop_bots)
    IN  IF mu.err # "none" THEN mu
        ELSE
        LET member == mu.value[1]
            user == mu.value[2]
            chans == {c \in guild_channels :
                         c.id = channel_id /\ c.guild_id = guild_id}
        IN  IF chans = {} THEN Raise("NotFound")
            ELSE LET channel == CHOOSE c \in chans : TRUE
                 IN  IF Authorize(member, user, channel, guild_id, permission)
                     THEN Ok(<<member, user, channel>>)
                     ELSE Raise("Forbidden")

\* --------------------------------------------------- permission check runs
MemberRows ==
    {{}} \cup
    {{[id |-> t, guild_id |-> HomeGuild, owner |-> o, roles |-> rs]} :
        t \in Tokens, o \in BOOLEAN, rs \in RoleLists}

InitPerm ==
    /\ users \in {u \in [Users -> [bot : BOOLEAN]] :
                     \A x \in Users \ Tokens : ~u[x].bot}
    /\ members \in MemberRows
    /\ guilds \in {g \in [Guilds -> [permissions : PermBits]] :
                      \A x \in Guilds \ {HomeGuild} : g[x].permissions = 0}
    /\ roles = RoleTable
    \* a bot account is drawn with the overwrite lists of at most one row
    /\ \E ows \in OverwriteLists :
          /\ (\E t \in Tokens : users[t].bot) => Len(ows) <= 1
          /\ guild_channels =
                {[id |-> StoredChannel, guild_id |-> HomeGuild,
                  position |-> 1, permission_overwrites |-> ows]}
    /\ messages = {}
    /\ current_bucket = 0
    /\ ret = NoCall

\* The checks keep nothing between calls and write nothing to the store, so
\* a behaviour is one call on a drawn store: ret = NoCall until it is made.
ValidateUser ==
    /\ ret = NoCall
    /\ \E token \in Tokens, stop_bots \in BOOLEAN :
          ret' = [op |-> "validate_user", token |-> token,
                  stop_bots |-> stop_bots,
                  out |-> validate_user(token, stop_bots)]
    /\ UNCHANGED store

ValidateMember ==
    /\ ret = NoCall
    /\ \E token \in Tokens, stop_bots \in BOOLEAN :
          ret' = [op |-> "validate_member", token |-> token,
                  guild_id |-> HomeGuild, stop_bots |-> stop_bots,
                  out |-> validate_member(token, HomeGuild, stop_bots)]
    /\ UNCHANGED store

ValidateChannel ==
    /\ ret = NoCall
    /\ \E token \in Tokens, channel_id \in ChannelIds,
          permission \in FlagNames, stop_bots \in BOOLEAN :
          ret' = [op |-> "validate_channel", token |-> token,
                  guild_id |-> HomeGuild, channel_id |-> channel_id,
                  permission |-> permission, stop_bots |-> stop_bots,
                  out |-> validate_channel(token, HomeGuild, channel_id,
                                           permission, stop_bots)]
    /\ UNCHANGED store

NextPerm == ValidateUser \/ ValidateMember \/ ValidateChannel

SpecPerm == InitPerm /\ [][NextPerm]_vars

\* ------------------------------------------------------- search_messages
MessageIds == 1..MaxMessages
Limits == 1..MaxLimit

\* get_bucket(channel_id): the current bucket of the channel
get_bucket(channel_id) == current_bucket

RECURSIVE SortByIdDesc(_)
SortByIdDesc(msgs) ==
    IF msgs = {} THEN <<>>
    ELSE LET top == CHOOSE m \in msgs : \A n \in msgs : n.id <= m.id
         IN  <<top>> \o SortByIdDesc(msgs \ {top})

\* Message.objects(channel_id, bucket_id).limit(limit).order_by('-id').all()
BucketQuery(channel_id, bucket, limit) ==
    LET rows == SortByIdDesc({m \in messages :
                    m.channel_id = channel_id /\ m.bucket_id = bucket})
    IN  SubSeq(rows, 1, IF Len(rows) < limit THEN Len(rows) ELSE limit)

\* the loop "for bucket in range(current_bucket)" of the branch
\* "message_id is None", from bucket on, with collected_messages so far
RECURSIVE CollectFrom(_, _, _, _)
CollectFrom(bucket, collected_messages, channel_id, limit) ==
    IF bucket >= get_bucket(channel_id) THEN collected_messages
    ELSE LET appended == Append(collected_messages,
                                BucketQuery(channel_id, bucket, limit))
         IN  IF Len(appended) > limit
             THEN SubSeq(appended, limit + 1, Len(appended))
             ELSE CollectFrom(bucket + 1, appended, channel_id, limit)

\* search_messages(channel_id, None, limit)
search_messages_page(channel_id, limit) ==
    Ok(CollectFrom(0, <<>>, channel_id, limit))

\* the loop of the branch with a message_id, from bucket on: the set with
\* the message returned, empty when the function falls off its end
RECURSIVE LookupFrom(_, _, _)
LookupFrom(bucket, channel_id, message_id) ==
    IF bucket >= get_bucket(channel_id) THEN {}
    ELSE LET pmsg == {m \in messages : /\ m.id = message_id
                                       /\ m.channel_id = channel_id
                                       /\ m.bucket_id = bucket}
         IN  IF pmsg # {} THEN {CHOOSE m \in pmsg : TRUE}
             ELSE LookupFrom(bucket + 1, channel_id, message_id)

\* search_messages(channel_id, message_id)
search_messages_by_id(channel_id, message_id) ==
    Ok(LookupFrom(0, channel_id, message_id))

\* bucket ids grow with message ids and none lies beyond the current bucket
BucketMaps ==
    {b \in [MessageIds -> 0..MaxBucket] :
        \A i, j \in MessageIds : i <= j => b[i] <= b[j]}

InitMsg ==
    /\ users = [u \in Users |-> [bot |-> FALSE]]
    /\ members = {}
    /\ guilds = [g \in Guilds |-> [permissions |-> 0]]
    /\ roles = RoleTable
    /\ guild_channels = {}
    /\ current_bucket \in 0..MaxBucket
    /\ \E b \in BucketMaps, stored \in SUBSET MessageIds,
          ch \in [MessageIds -> ChannelIds] :
          /\ \A i \in stored : b[i] <= current_bucket
          /\ messages = {[id |-> i, channel_id |-> ch[i],
                          bucket_id |-> b[i]] : i \in stored}
    /\ ret = NoCall

SearchPage ==
    /\ ret = NoCall
    /\ \E channel_id \in ChannelIds, limit \in Limits :
          ret' = [op |-> "search_messages_page", channel_id |-> channel_id,
                  limit |-> limit,
                  out |-> search_messages_page(channel_id, limit)]
    /\ UNCHANGED store

SearchById ==
    /\ ret = NoCall
    /\ \E channel_id \in ChannelIds, message_id \in MessageIds :
          ret' = [op |-> "search_messages_by_id", channel_id |-> channel_id,
                  message_id |-> message_id,
                  out |-> search_messages_by_id(channel_id, message_id)]
    /\ UNCHANGED store

NextMsg == SearchPage \/ SearchById

SpecMsg == InitMsg /\ [][NextMsg]_vars

\* ------------------------------------------------ verify_channel_position
\* the loop over guild_channels, with highest_pos so far
RECURSIVE HighestPos(_, _)
HighestPos(channels, highest_pos) ==
    IF channels = {} THEN highest_pos
    ELSE LET channel == CHOOSE c \in channels : TRUE
         IN  HighestPos(channels \ {channel},
                        IF channel.position > highest_pos
                        THEN channel.position ELSE highest_pos)

verify_channel_position_at_least(pos, guild_id) ==
    LET guild_channels_ == {c \in guild_channels : c.guild_id = guild_id}
        highest_pos == HighestPos(guild_channels_, 0)
    IN  IF pos < highest_pos + 1 THEN Raise("BadData") ELSE Ok(None)

verify_channel_position(pos, guild_id) ==
    LET guild_channels_ == {c \in guild_channels : c.guild_id = guild_id}
        highest_pos == HighestPos(guild_channels_, 0)
    IN  IF pos # highest_pos + 1 THEN Raise("BadData") ELSE Ok(None)

StoredChannelIds == 1..MaxChannels
Positions == 0..MaxPos
ProposedPositions == 0..(MaxPos + 2)

InitPos ==
    /\ users = [u \in Users |-> [bot |-> FALSE]]
    /\ members = {}
    /\ guilds = [g \in Guilds |-> [permissions |-> 0]]
    /\ roles = RoleTable
    /\ \E stored \in SUBSET StoredChannelIds,
          g \in [StoredChannelIds -> Guilds],
          p \in [StoredChannelIds -> Positions] :
          guild_channels = {[id |-> c, guild_id |-> g[c], position |-> p[c],
                             permission_overwrites |-> <<>>] : c \in stored}
    /\ messages = {}
    /\ current_bucket = 0
    /\ ret = NoCall

VerifyChannelPosition ==
    /\ ret = NoCall
    /\ \E pos \in ProposedPositions, guild_id \in Guilds :
          ret' = [op |-> "verify_channel_position", pos |-> pos,
                  guild_id |-> guild_id,
                  out |-> verify_channel_position(pos, guild_id)]
    /\ UNCHANGED store

NextPos == VerifyChannelPosition

SpecPos == InitPos /\ [][NextPos]_vars

\* ======================================================== claims, SpecPerm
\* what the last call was about
CallerRows ==
    {m \in members : m.id = ret.token /\ m.guild_id = ret.guild_id}
AskedChannels ==
    {c \in guild_channels :
        c.id = ret.channel_id /\ c.guild_id = ret.guild_id}
CallerUser == [id |-> ret.token, bot |-> users[ret.token].bot]
Granted(m, c) == ret.out = Ok(<<m, CallerUser, c>>)
Forbidden == ret.out = Raise("Forbidden")

\* the resolved baseline bitset of member m: its first role's bitset, the
\* guild default when it has no roles
Baseline(m) ==
    IF Len(m.roles) = 0 THEN guilds[m.guild_id].permissions
    ELSE roles[Head(m.roles)].permissions

\* entry i of channel c names the calling user
Targets(c, i) == c.permission_overwrites[i].id = ret.token
\* ... and no entry before it does
FirstTarget(c, i) ==
    /\ i \in DOMAIN c.permission_overwrites
    /\ Targets(c, i)
    /\ \A j \in 1..(i - 1) : ~Targets(c, j)

\* C1: a member flagged as guild owner is granted every permission on every
\* existing channel of the guild, and gets (member, user, channel) back,
\* whatever the overwrites, the roles and the guild default are.
C1_OwnerGranted ==
    ret.op = "validate_channel" =>
        \A m \in CallerRows, c \in AskedChannels : m.owner => Granted(m, c)

\* an owner is granted a permission that an overwrite naming them denies
C1_Witness ==
    /\ ret.op = "validate_channel"
    /\ \E m \in CallerRows, c \in AskedChannels :
          /\ m.owner
          /\ Granted(m, c)
          /\ \E i \in DOMAIN c.permission_overwrites :
                /\ Targets(c, i)
                /\ HasFlag(c.permission_overwrites[i].deny, ret.permission)
                /\ ~HasFlag(c.permission_overwrites[i].allow, ret.permission)

\* C2, as stated: a non-owner member is refused with Forbidden whenever the
\* channel's overwrite list contains an entry for them whose deny bitset
\* includes the permission.
C2_AnyDenyingEntryForbids ==
    ret.op = "validate_channel" =>
        \A m \in CallerRows, c \in AskedChannels :
            (/\ ~m.owner
             /\ \E i \in DOMAIN c.permission_overwrites :
                   /\ Targets(c, i)
                   /\ HasFlag(c.permission_overwrites[i].deny, ret.permission))
            => Forbidden

\* C2, amended: a non-owner member is refused with Forbidden whenever the
\* first entry for them in the channel's overwrite list has the permission
\* in its deny bitset, whatever its allow bitset and the baseline are.
C2_FirstDenyingEntryForbids ==
    ret.op = "validate_channel" =>
        \A m \in CallerRows, c \in AskedChannels :
            \A i \in DOMAIN c.permission_overwrites :
                (/\ ~m.owner
                 /\ FirstTarget(c, i)
                 /\ HasFlag(c.permission_overwrites[i].deny, ret.permission))
                => Forbidden

\* refused although the same entry also allows the permission and the
\* baseline carries the administator flag
C2_Witness ==
    /\ ret.op = "validate_channel"
    /\ Forbidden
    /\ \E m \in CallerRows, c \in AskedChannels :
          /\ ~m.owner
          /\ HasFlag(Baseline(m), "administator")
          /\ \E i \in DOMAIN c.permission_overwrites :
                /\ FirstTarget(c, i)
                /\ HasFlag(c.permission_overwrites[i].deny, ret.permission)
                /\ HasFlag(c.permission_overwrites[i].allow, ret.permission)

\* C3: for a non-owner member, when the first overwrite entry naming them
\* allows the permission and does not deny it the call grants; when that
\* entry's allow bitset lacks the permission the call raises Forbidden;
\* neither depends on the roles or the guild default.
C3_FirstEntryDecides ==
    ret.op = "validate_channel" =>
        \A m \in CallerRows, c \in AskedChannels :
            \A i \in DOMAIN c.permission_overwrites :
                (~m.owner /\ FirstTarget(c, i)) =>
                    LET e == c.permission_overwrites[i]
                    IN  /\ (/\ HasFlag(e.allow, ret.permission)
                            /\ ~HasFlag(e.deny, ret.permission))
                           => Granted(m, c)
                        /\ ~HasFlag(e.allow, ret.permission) => Forbidden

\* granted by the first entry to a member without roles in a guild whose
\* default lacks the permission, while a later entry for them denies it
C3_Witness ==
    /\ ret.op = "validate_channel"
    /\ \E m \in CallerRows, c \in AskedChannels :
          /\ ~m.owner
          /\ m.roles = <<>>
          /\ Baseline(m) = 0
          /\ Granted(m, c)
          /\ \E i, j \in DOMAIN c.permission_overwrites :
                /\ FirstTarget(c, i)
                /\ i < j
                /\ Targets(c, j)
                /\ HasFlag(c.permission_overwrites[j].deny, ret.permission)

\* C4, as stated: a member whose baseline bitset includes the administator
\* flag is granted every permission on every existing channel of the guild.
C4_AdminBaselineGranted ==
    ret.op = "validate_channel" =>
        \A m \in CallerRows, c \in AskedChannels :
            HasFlag(Baseline(m), "administator") => Granted(m, c)

\* C4, amended: such a member is granted every permission on every existing
\* channel of the guild whose overwrite list has no entry naming them.
C4_AdminBaselineGrantedNoOverwrite ==
    ret.op = "validate_channel" =>
        \A m \in CallerRows, c \in AskedChannels :
            (/\ HasFlag(Baseline(m), "administator")
             /\ \A i \in DOMAIN c.permission_overwrites : ~Targets(c, i))
            => Granted(m, c)

\* a non-owner whose baseline has the administator flag and not the asked
\* permission is granted it, on a channel with an entry for someone else
C4_Witness ==
    /\ ret.op = "validate_channel"
    /\ \E m \in CallerRows, c \in AskedChannels :
          /\ ~m.owner
          /\ HasFlag(Baseline(m), "administator")
          /\ ~HasFlag(Baseline(m), ret.permission)
          /\ c.permission_overwrites # <<>>
          /\ \A i \in DOMAIN c.permission_overwrites : ~Targets(c, i)
          /\ Granted(m, c)

\* C9: for a user without a membership row in the guild, validate_member
\* raises Forbidden, and so does validate_channel, whether or not the
\* channel asked for exists; neither raises NotFound.
C9_NonMemberForbidden ==
    (ret.op \in {"validate_member", "validate_channel"} /\ CallerRows = {})
        => Forbidden

\* a non-member asks for a channel that does not exist
C9_Witness ==
    /\ ret.op = "validate_channel"
    /\ CallerRows = {}
    /\ AskedChannels = {}
    /\ Forbidden

\* C10: with stop_bots set, validate_user, validate_member and
\* validate_channel each raise Forbidden for a user flagged as a bot.
C10_BotsStopped ==
    (/\ ret.op \in {"validate_user", "validate_member", "validate_channel"}
     /\ ret.stop_bots
     /\ users[ret.token].bot)
        => Forbidden

\* ========================================================= claims, SpecMsg
StoredAs(channel_id, message_id) ==
    {m \in messages : m.id = message_id /\ m.channel_id = channel_id}

RECURSIVE Flatten(_)
Flatten(lists) ==
    IF lists = <<>> THEN <<>> ELSE Head(lists) \o Flatten(Tail(lists))

\* C5: search_messages with a message_id returns nothing when no message of
\* that id was stored for the channel, and the stored message when one was,
\* in whichever bucket from 0 to the current one it lies.
C5_FindsStoredMessage ==
    ret.op = "search_messages_by_id" =>
        ret.out = Ok(StoredAs(ret.channel_id, ret.message_id))

\* C6: search_messages without a message_id returns at most limit messages.
C6_AtMostLimit ==
    ret.op = "search_messages_page" =>
        Len(Flatten(ret.out.value)) <= ret.limit

\* C7: the messages search_messages returns without a message_id are
\* newest first: each id is greater than every id after it.
C7_NewestFirst ==
    ret.op = "search_messages_page" =>
        LET page == Flatten(ret.out.value)
        IN  \A i, j \in DOMAIN page : i < j => page[i].id > page[j].id

\* ========================================================= claims, SpecPos
AskedGuildPositions ==
    {c.position : c \in {d \in guild_channels : d.guild_id = ret.guild_id}}

\* C8, as stated: verify_channel_position returns if and only if pos is the
\* maximum position of the guild's channels plus one, and raises BadData
\* otherwise.
C8_MaxPlusOne ==
    ret.op = "verify_channel_position" =>
        LET fits == \E top \in AskedGuildPositions :
                        /\ \A q \in AskedGuildPositions : q <= top
                        /\ ret.pos = top + 1
        IN  IF fits THEN ret.out = Ok(None) ELSE ret.out = Raise("BadData")

\* C8, amended: it returns if and only if pos is one more than the largest
\* of 0 and the positions of the guild's channels, and raises BadData
\* otherwise; the channels are left as they were.
C8_MaxOrZeroPlusOne ==
    /\ [](ret.op = "verify_channel_position" =>
            LET fits == \E top \in AskedGuildPositions \cup {0} :
                            /\ \A q \in AskedGuildPositions \cup {0} : q <= top
                            /\ ret.pos = top + 1
            IN  IF fits THEN ret.out = Ok(None) ELSE ret.out = Raise("BadData"))
    /\ [][guild_channels' = guild_channels]_vars

\* position 1 is accepted for a guild without channels
C8_Witness ==
    /\ ret.op = "verify_channel_position"
    /\ AskedGuildPositions = {}
    /\ ret.pos = 1
    /\ ret.out = Ok(None)

====
